---- MODULE Spec2Model ----
(***************************************************************************)
(* Model of src/app.py (gastitan/rsi-streamlit): RSI of Argentine equities *)
(* expressed in USD through the implied exchange rate of a dual-listed     *)
(* stock.                                                                  *)
(*                                                                         *)
(* Numbers.  pandas works on IEEE doubles.  A value is modelled as a pair  *)
(* <<n, d>> with d >= 0: d > 0 is the exact rational n/d in lowest terms,  *)
(* <<0,0>> is NaN, <<1,0>> is +inf and <<-1,0>> is -inf.  Division by zero *)
(* therefore behaves as in numpy (x/0 = +-inf, 0/0 = NaN), while rounding  *)
(* and the sign of zero are not modelled.                                  *)
(*                                                                         *)
(* Frames.  A DataFrame/Series indexed by date is a function from a finite *)
(* set of dates (integers, the DatetimeIndex in ascending order) to a      *)
(* record of its columns; the empty frame is the function of empty domain. *)
(* An optional result (None or a frame) is a sequence of length 0 or 1.    *)
(***************************************************************************)
EXTENDS Integers, Sequences, FiniteSets, TLC

\* ------------------------------------------------------------------ bounds

\* last calendar day of the download window (days are 1..MaxDate)
MaxDate == 11
\* longest ticker selection of a run
MaxTickers == 2
\* longest price series given to calcular_rsi on its own
MaxLen == 4
\* largest close of a price series given to calcular_rsi on its own
MaxClose == 3
\* largest RSI period given to calcular_rsi on its own
MaxPeriodo == 3
\* largest RSI period set on the slider in a run of the page
MaxPeriodoRsi == 7

\* ------------------------------------------------------------------ values

NaN == <<0, 0>>
Zero == <<0, 1>>

Abs(n) == IF n < 0 THEN -n ELSE n
Sign(n) == IF n < 0 THEN -1 ELSE IF n > 0 THEN 1 ELSE 0

RECURSIVE GCD(_, _)
GCD(a, b) == IF b = 0 THEN a ELSE GCD(b, a % b)

\* the value n/d, for any integers n and d
Norm(n, d) ==
    IF d = 0 THEN <<Sign(n), 0>>
    ELSE LET s == IF d < 0 THEN -1 ELSE 1
             g == GCD(Abs(n), Abs(d))
         IN  <<(s * n) \div g, (s * d) \div g>>

Num(n) == <<n, 1>>
IsNaN(v) == v = NaN
IsFinite(v) == v[2] # 0

Neg(a) == <<-a[1], a[2]>>
Add(a, b) ==
    IF IsNaN(a) \/ IsNaN(b) THEN NaN
    ELSE IF ~IsFinite(a) /\ ~IsFinite(b) THEN (IF a = b THEN a ELSE NaN)
    ELSE IF ~IsFinite(a) THEN a
    ELSE IF ~IsFinite(b) THEN b
    ELSE LET g == GCD(a[2], b[2])
         IN  Norm(a[1] * (b[2] \div g) + b[1] * (a[2] \div g), (a[2] \div g) * b[2])
Sub(a, b) == Add(a, Neg(b))
Mul(a, b) == Norm(a[1] * b[1], a[2] * b[2])
Div(a, b) == Norm(a[1] * b[2], a[2] * b[1])
\* a < b as floats compare: false when either side is NaN
Lt(a, b) ==
    IF IsNaN(a) \/ IsNaN(b) THEN FALSE
    ELSE IF ~IsFinite(a) /\ ~IsFinite(b) THEN a[1] < b[1]
    ELSE a[1] * b[2] < b[1] * a[2]

\* ------------------------------------------------------------------ frames

None == <<>>
Some(x) == <<x>>
EmptyFrame == <<>>

\* f itself, its values computed once instead of at every use
Strict(f) == f @@ <<>>

Max(S) == CHOOSE x \in S : \A y \in S : y <= x
Min(S) == CHOOSE x \in S : \A y \in S : x <= y

\* the dates of a frame in index order
RECURSIVE SortedDates(_)
SortedDates(S) == IF S = {} THEN <<>> ELSE <<Min(S)>> \o SortedDates(S \ {Min(S)})

\* a column of a frame as the sequence of its values in index order
Column(df, col) == LET ds == SortedDates(DOMAIN df)
                   IN  Strict([i \in 1..Len(ds) |-> df[ds[i]][col]])

\* DataFrame.dropna(): the rows none of whose columns is NaN
dropna(df, cols) ==
    LET keep == {d \in DOMAIN df : \A c \in cols : ~IsNaN(df[d][c])}
    IN  Strict([d \in keep |-> df[d]])

\* Series.ffill(): a NaN takes the last non-NaN value above it
ffill(s) ==
    Strict([d \in DOMAIN s |->
        IF ~IsNaN(s[d]) THEN s[d]
        ELSE LET prev == {e \in DOMAIN s : e < d /\ ~IsNaN(s[e])}
             IN  IF prev = {} THEN NaN ELSE s[Max(prev)]])

\* Series.bfill(): a NaN takes the first non-NaN value below it
bfill(s) ==
    Strict([d \in DOMAIN s |->
        IF ~IsNaN(s[d]) THEN s[d]
        ELSE LET next == {e \in DOMAIN s : e > d /\ ~IsNaN(s[e])}
             IN  IF next = {} THEN NaN ELSE s[Min(next)]])

\* --------------------------------------------------------------------- RSI

\* Series.diff(): the first element has no predecessor and is NaN
diff(precios) ==
    Strict([i \in 1..Len(precios) |-> IF i = 1 THEN NaN ELSE Sub(precios[i], precios[i - 1])])

\* deltas.where(deltas > 0, 0): NaN > 0 is false, so a NaN becomes 0
ganancias(deltas) ==
    Strict([i \in 1..Len(deltas) |-> IF Lt(Zero, deltas[i]) THEN deltas[i] ELSE Zero])

\* -deltas.where(deltas < 0, 0)
perdidas(deltas) ==
    Strict([i \in 1..Len(deltas) |-> Neg(IF Lt(deltas[i], Zero) THEN deltas[i] ELSE Zero)])

RECURSIVE SumSeq(_, _, _)
SumSeq(s, lo, hi) == IF lo > hi THEN Zero ELSE Add(s[lo], SumSeq(s, lo + 1, hi))

\* Series.rolling(window).mean(): min_periods is the window, and pandas turns
\* an infinite observation into a missing one before it counts them
rolling_mean(s, window) ==
    Strict([i \in 1..Len(s) |->
        IF i < window THEN NaN
        ELSE IF \E j \in (i - window + 1)..i : ~IsFinite(s[j]) THEN NaN
        ELSE Div(SumSeq(s, i - window + 1, i), Num(window))])

calcular_rsi(precios, periodo) ==
    LET deltas == diff(precios)
        avg_ganancias == rolling_mean(ganancias(deltas), periodo)
        avg_perdidas == rolling_mean(perdidas(deltas), periodo)
    IN  Strict([i \in 1..Len(precios) |->
            LET rs == Div(avg_ganancias[i], avg_perdidas[i])
            IN  Sub(Num(100), Div(Num(100), Add(Num(1), rs)))])

\* ------------------------------------------------- the data provider (input)

\* a day on which the provider has a row without values
HoleDate == 5

\* the close of day d in a series of the given shape; "rsi30" and "rsi70" end
\* in seven changes whose gains and losses are in the ratio 3:7 and 7:3
ShapeClose(shape, d) ==
    LET k == MaxDate - d
    IN  CASE shape = "flat" -> 5
          [] shape = "up" -> 5 + d
          [] shape = "down" -> 5 + k
          [] shape = "zig" -> 5 + (d % 2)
          [] shape = "step" -> IF d <= 3 THEN 4 ELSE 8
          [] shape = "zero" -> d % 2
          [] shape = "rsi30" -> IF k > 7 THEN 8 ELSE <<4, 6, 7, 8, 9, 10, 11, 8>>[k + 1]
          [] shape = "rsi70" -> IF k > 7 THEN 8 ELSE <<12, 10, 9, 8, 7, 6, 5, 8>>[k + 1]

\* what yf.download returns: rows for the days lo..hi, the row of `hole`
\* (if any) holding NaN in every column
Frame(lo, hi, hole, shape) ==
    [d \in lo..hi |->
        IF d = hole THEN [Close |-> NaN, Volume |-> NaN]
        ELSE [Close |-> Num(ShapeClose(shape, d)), Volume |-> Num(1000)]]

\* a download that raised instead of returning a frame
Raised == <<"raised">>

\* the downloads of a selected ticker in a run of the page
TargetFrames ==
    {Frame(1, MaxDate, 0, shape) : shape \in {"flat", "up", "down", "rsi30", "rsi70"}}
        \cup {Frame(MaxDate - 2, MaxDate, 0, "up")}

\* the last closes <<ba, us>> of each candidate over period="5d", <<>> for a
\* candidate with a download that is empty or raises
Quotes ==
    { << <<>>, <<>>, <<>> >>,
      << <<Num(3), Num(1)>>, <<>>, <<>> >>,
      << <<Zero, Num(1)>>, <<>>, <<>> >>,
      << <<>>, <<>>, <<Num(30), Num(1)>> >> }

\* obtener_datos_accion_usd reads the current rate only when df_tc is None
QuotesRead(tc) == IF tc = None THEN Quotes ELSE {<< <<>>, <<>>, <<>> >>}

\* ------------------------------------------------------- the rate resolver

intentos ==
    << [ba |-> "GGAL.BA", us |-> "GGAL", multiplicador |-> 10],
       [ba |-> "BMA.BA", us |-> "BMA", multiplicador |-> 1],
       [ba |-> "YPF.BA", us |-> "YPF", multiplicador |-> 1] >>

\* len(df_tc) < 10: too few common days
MinAligned == 10

\* the downloads of the legs of a candidate pair in a run of the page: the
\* local leg over the last 11 or 10 days of the window or with an empty row,
\* the other leg over the last 11 with or without an empty row
LegFramesBA ==
    {Frame(lo, MaxDate, 0, "step") : lo \in (MaxDate - MinAligned)..(MaxDate - MinAligned + 1)}
        \cup {Frame(MaxDate - MinAligned, MaxDate, HoleDate, "flat")}
LegFramesUS ==
    {Frame(MaxDate - MinAligned, MaxDate, hole, "flat") : hole \in {0, HoleDate}}

\* pd.DataFrame({'BA': stock_ba['Close'], 'US': stock_us['Close']}).dropna():
\* the union of the two indexes, NaN where a leg has no row, less the rows
\* holding a NaN
JoinLegs(stock_ba, stock_us) ==
    LET outer == Strict([d \in DOMAIN stock_ba \cup DOMAIN stock_us |->
                    [BA |-> IF d \in DOMAIN stock_ba THEN stock_ba[d].Close ELSE NaN,
                     US |-> IF d \in DOMAIN stock_us THEN stock_us[d].Close ELSE NaN]])
    IN  dropna(outer, {"BA", "US"})

\* df_tc['TC'] = (df_tc['BA'] / df_tc['US']) * multiplicador
TipoCambio(ba, us, multiplicador) == Mul(Div(ba, us), Num(multiplicador))

WithTC(joined, multiplicador) ==
    [d \in DOMAIN joined |->
        [BA |-> joined[d].BA, US |-> joined[d].US,
         TC |-> TipoCambio(joined[d].BA, joined[d].US, multiplicador)]]

\* (mutant) the threshold of common days off by one
VerdictOffByOne(stock_ba, stock_us) ==
    IF stock_ba = EmptyFrame \/ stock_us = EmptyFrame THEN "empty"
    ELSE IF Cardinality(DOMAIN JoinLegs(stock_ba, stock_us)) <= MinAligned THEN "pocos"
    ELSE "ok"

\* the verdict on one candidate once both legs are downloaded
Verdict(stock_ba, stock_us) ==
    IF stock_ba = EmptyFrame \/ stock_us = EmptyFrame THEN "empty"
    ELSE IF Cardinality(DOMAIN JoinLegs(stock_ba, stock_us)) < MinAligned THEN "pocos"
    ELSE "ok"

\* obtener_tipo_cambio_actual over the last closes q[k] of each candidate:
\* the first candidate with both legs decides; None when there is none
RECURSIVE TipoCambioActualDesde(_, _)
TipoCambioActualDesde(q, k) ==
    IF k > Len(intentos) THEN None
    ELSE IF q[k] # <<>> THEN Some(TipoCambio(q[k][1], q[k][2], intentos[k].multiplicador))
    ELSE TipoCambioActualDesde(q, k + 1)

obtener_tipo_cambio_actual(q) == TipoCambioActualDesde(q, 1)

\* Python's truth of the float-or-None tc_actual: None and 0.0 are false
Truthy(tc) == tc # None /\ tc[1] # Zero

\* -------------------------------------------------------------- the aligner

ColumnsUSD == {"Close_ARS", "Volume", "TC", "Close_USD"}

\* df_combined.join(df_tc[['TC']], how='left'): every row of df, the rate of
\* its day, NaN when df_tc has no row for that day
LeftJoinTC(df, tc) ==
    Strict([d \in DOMAIN df |-> IF d \in DOMAIN tc THEN tc[d].TC ELSE NaN])

\* obtener_datos_accion_usd past the download: df is the non-empty download,
\* df_tc the historical rates or None, q the last closes read when df_tc is None
ConvertirUSD(df, df_tc, q) ==
    LET tc_actual == obtener_tipo_cambio_actual(q)
    IN  IF df_tc = None /\ tc_actual = None THEN None
        ELSE LET TC == IF df_tc = None THEN [d \in DOMAIN df |-> tc_actual[1]]
                       ELSE bfill(ffill(LeftJoinTC(df, df_tc[1])))
                 df_combined ==
                     Strict([d \in DOMAIN df |->
                         [Close_ARS |-> df[d].Close,
                          Volume |-> df[d].Volume,
                          TC |-> TC[d],
                          Close_USD |-> Div(df[d].Close, TC[d])]])
             IN  Some(dropna(df_combined, ColumnsUSD))

\* obtener_datos_accion_usd: `out` is what the download of ticker.BA does
obtener_datos_accion_usd(out, df_tc, q) ==
    IF out = Raised \/ out = EmptyFrame THEN None
    ELSE ConvertirUSD(out, df_tc, q)

\* ------------------------------------------------------------ the analysis

\* analizar_accion past the conversion: the RSI columns and the latest values
Metricas(ticker, df, periodo_rsi) ==
    LET ds == SortedDates(DOMAIN df)
        RSI_ARS == calcular_rsi(Column(df, "Close_ARS"), periodo_rsi)
        RSI_USD == calcular_rsi(Column(df, "Close_USD"), periodo_rsi)
        last == ds[Len(ds)]
    IN  [ticker |-> ticker,
         ticker_completo |-> <<ticker, ".BA">>,
         precio_ars |-> df[last].Close_ARS,
         precio_usd |-> df[last].Close_USD,
         tc |-> df[last].TC,
         rsi_ars |-> RSI_ARS[Len(ds)],
         rsi_usd |-> RSI_USD[Len(ds)],
         df |-> [i \in 1..Len(ds) |->
                   [Date |-> ds[i],
                    Close_ARS |-> df[ds[i]].Close_ARS,
                    Close_USD |-> df[ds[i]].Close_USD,
                    TC |-> df[ds[i]].TC,
                    RSI_ARS |-> RSI_ARS[i],
                    RSI_USD |-> RSI_USD[i]]]]

\* (mutant) a ticker with less history than the RSI period is given up
analizar_accion_exige_historia(ticker, out, df_tc, q, periodo_rsi) ==
    LET datos == obtener_datos_accion_usd(out, df_tc, q)
    IN  IF datos = None \/ Cardinality(DOMAIN datos[1]) < periodo_rsi THEN None
        ELSE Some(Metricas(ticker, datos[1], periodo_rsi))

\* analizar_accion: None, or the record of the ticker's latest values
analizar_accion(ticker, out, df_tc, q, periodo_rsi) ==
    LET datos == obtener_datos_accion_usd(out, df_tc, q)
    IN  IF datos = None \/ datos[1] = EmptyFrame THEN None
        ELSE Some(Metricas(ticker, datos[1], periodo_rsi))

\* (mutant) the thresholds taken inclusively
SenalInclusiva(rsi_usd) ==
    IF Lt(rsi_usd, Num(30)) \/ rsi_usd = Num(30) THEN "Sobreventa"
    ELSE IF Lt(Num(70), rsi_usd) \/ rsi_usd = Num(70) THEN "Sobrecompra"
    ELSE "Neutral"

\* the 'Señal' column of df_resultados
Senal(rsi_usd) ==
    IF Lt(rsi_usd, Num(30)) THEN "Sobreventa"
    ELSE IF Lt(Num(70), rsi_usd) THEN "Sobrecompra"
    ELSE "Neutral"

\* ---------------------------------------------------------------- the page

VARIABLES
    pc,                     \* where the run of the script is
    tickers_seleccionados,  \* the sidebar's selection
    periodo_rsi,            \* the sidebar's RSI period
    tc_actual,              \* the module-level tc_actual (None or a rate)
    intento,                \* index in intentos of the candidate being tried
    stock_ba, stock_us,     \* the downloads of the candidate being tried
    df_tc,                  \* the historical rates (None or a frame)
    si_fijo,                \* the value of the button "Sí, usar TC fijo"
    idx,                    \* the batch loop's index (1-based)
    resultados,             \* the batch loop's list of results
    df_resultados,          \* the table of the results, once shown
    descargas,              \* history: <<candidate, leg>> of the leg downloads
    saltados,               \* history: the candidates skipped
    veredicto,              \* history: why the last candidate was skipped or kept
    analizados,             \* history: per ticker processed, its download and data
    a_df, a_tc, a_q, a_out, \* the aligner on its own: inputs, <<result>> once called
    r_precios, r_periodo, r_rsi  \* calcular_rsi on its own: inputs, <<result>> once called

vars == <<pc, tickers_seleccionados, periodo_rsi, tc_actual, intento, stock_ba,
          stock_us, df_tc, si_fijo, idx, resultados, df_resultados, descargas,
          saltados, veredicto, analizados, a_df, a_tc, a_q, a_out,
          r_precios, r_periodo, r_rsi>>

align_vars == <<a_df, a_tc, a_q, a_out>>
rsi_vars == <<r_precios, r_periodo, r_rsi>>

\* the multiselect's default selection
tickers_default == <<"GGAL", "YPF", "BBAR">>
\* the selections of a run: the first tickers of the default selection
Selecciones == {SubSeq(tickers_default, 1, n) : n \in 0..MaxTickers}
\* the slider "Período RSI": min_value
PeriodoMin == 7

RECURSIVE SeqsUpTo(_, _)
SeqsUpTo(S, n) ==
    IF n = 0 THEN {<<>>}
    ELSE LET shorter == SeqsUpTo(S, n - 1)
         IN  shorter \cup {Append(q, x) : q \in {t \in shorter : Len(t) = n - 1}, x \in S}

PageIdle ==
    /\ pc = "inicio"
    /\ tickers_seleccionados = <<>>
    /\ periodo_rsi = PeriodoMin
    /\ tc_actual = None
    /\ intento = 1
    /\ stock_ba = EmptyFrame
    /\ stock_us = EmptyFrame
    /\ df_tc = None
    /\ si_fijo = FALSE
    /\ idx = 1
    /\ resultados = <<>>
    /\ df_resultados = <<>>
    /\ descargas = <<>>
    /\ saltados = {}
    /\ veredicto = ""
    /\ analizados = <<>>

AlignIdle == a_df = EmptyFrame /\ a_tc = None /\ a_q = <<>> /\ a_out = <<>>
RsiIdle == r_precios = <<>> /\ r_periodo = 1 /\ r_rsi = <<>>

\* a run of the script starts with the sidebar as the user left it
Init ==
    /\ PageIdle
    /\ AlignIdle
    /\ RsiIdle

\* lines 209-266: the sidebar is read and the current rate shown; without a
\* current rate the script stops before the "CALCULAR" button exists
Pagina ==
    /\ pc = "inicio"
    /\ \E sel \in Selecciones, p \in PeriodoMin..MaxPeriodoRsi, q \in Quotes :
        /\ tickers_seleccionados' = sel
        /\ periodo_rsi' = p
        /\ tc_actual' = obtener_tipo_cambio_actual(q)
        /\ pc' = IF Truthy(obtener_tipo_cambio_actual(q)) THEN "boton" ELSE "stopped"
    /\ UNCHANGED <<align_vars, rsi_vars>>
    /\ UNCHANGED <<intento, stock_ba, stock_us, df_tc, si_fijo, idx, resultados,
                   df_resultados, descargas, saltados, veredicto, analizados>>

\* lines 282-290: the button is pressed; an empty selection stops the script,
\* otherwise obtener_tipo_cambio_historico is entered
Calcular ==
    /\ pc = "boton"
    /\ pc' = IF tickers_seleccionados = <<>> THEN "stopped" ELSE "tc_ba"
    /\ UNCHANGED <<align_vars, rsi_vars>>
    /\ UNCHANGED <<tickers_seleccionados, periodo_rsi, tc_actual, intento, stock_ba,
                   stock_us, df_tc, si_fijo, idx, resultados, df_resultados,
                   descargas, saltados, veredicto, analizados>>

\* `continue`, and after the last candidate lines 71-73: return None
Siguiente(v) ==
    /\ veredicto' = v
    /\ saltados' = saltados \cup {intento}
    /\ df_tc' = None
    /\ IF intento < Len(intentos)
       THEN intento' = intento + 1 /\ pc' = "tc_ba"
       ELSE intento' = intento /\ pc' = "decidir"

\* line 41: the local leg is downloaded; an exception skips the candidate
DescargarBA ==
    /\ pc = "tc_ba"
    /\ descargas' = Append(descargas, <<intento, "BA">>)
    /\ \E out \in LegFramesBA \cup {EmptyFrame, Raised} :
        IF out = Raised
        THEN /\ Siguiente("error")
             /\ UNCHANGED stock_ba
        ELSE /\ stock_ba' = out
             /\ pc' = "tc_us"
             /\ UNCHANGED <<intento, saltados, veredicto, df_tc>>
    /\ UNCHANGED <<align_vars, rsi_vars>>
    /\ UNCHANGED <<tickers_seleccionados, periodo_rsi, tc_actual, stock_us,
                   si_fijo, idx, resultados, df_resultados, analizados>>

\* line 42: the hard-currency leg is downloaded
DescargarUS ==
    /\ pc = "tc_us"
    /\ descargas' = Append(descargas, <<intento, "US">>)
    /\ \E out \in LegFramesUS \cup {EmptyFrame, Raised} :
        IF out = Raised
        THEN /\ Siguiente("error")
             /\ UNCHANGED stock_us
        ELSE /\ stock_us' = out
             /\ pc' = "tc_eval"
             /\ UNCHANGED <<intento, saltados, veredicto, df_tc>>
    /\ UNCHANGED <<align_vars, rsi_vars>>
    /\ UNCHANGED <<tickers_seleccionados, periodo_rsi, tc_actual, stock_ba,
                   si_fijo, idx, resultados, df_resultados, analizados>>

\* (mutant) the rates of a usable candidate are kept but the loop goes on
EvaluarSinReturn ==
    /\ pc = "tc_eval"
    /\ IF Verdict(stock_ba, stock_us) = "ok"
       THEN /\ df_tc' = Some(WithTC(JoinLegs(stock_ba, stock_us),
                                    intentos[intento].multiplicador))
            /\ veredicto' = "ok"
            /\ IF intento < Len(intentos)
               THEN intento' = intento + 1 /\ pc' = "tc_ba"
               ELSE intento' = intento /\ pc' = "decidir"
            /\ UNCHANGED saltados
       ELSE Siguiente(Verdict(stock_ba, stock_us))
    /\ UNCHANGED <<align_vars, rsi_vars>>
    /\ UNCHANGED <<tickers_seleccionados, periodo_rsi, tc_actual, stock_ba, stock_us,
                   si_fijo, idx, resultados, df_resultados, descargas, analizados>>

\* lines 44-65: the candidate is skipped (a leg is empty, or fewer than 10
\* common days) or its rates are returned
Evaluar ==
    /\ pc = "tc_eval"
    /\ IF Verdict(stock_ba, stock_us) = "ok"
       THEN /\ df_tc' = Some(WithTC(JoinLegs(stock_ba, stock_us),
                                    intentos[intento].multiplicador))
            /\ veredicto' = "ok"
            /\ pc' = "decidir"
            /\ UNCHANGED <<intento, saltados>>
       ELSE Siguiente(Verdict(stock_ba, stock_us))
    /\ UNCHANGED <<align_vars, rsi_vars>>
    /\ UNCHANGED <<tickers_seleccionados, periodo_rsi, tc_actual, stock_ba, stock_us,
                   si_fijo, idx, resultados, df_resultados, descargas, analizados>>

\* (mutant) without historical rates the current rate is used unasked
DecidirSilencioso ==
    /\ pc = "decidir"
    /\ IF df_tc = None \/ df_tc[1] = EmptyFrame
       THEN \E q \in Quotes :
               /\ si_fijo' = FALSE
               /\ tc_actual' = obtener_tipo_cambio_actual(q)
               /\ df_tc' = None
               /\ pc' = IF Truthy(obtener_tipo_cambio_actual(q)) THEN "batch" ELSE "stopped"
       ELSE /\ pc' = "batch"
            /\ UNCHANGED <<si_fijo, tc_actual, df_tc>>
    /\ intento' = 1
    /\ stock_ba' = EmptyFrame
    /\ stock_us' = EmptyFrame
    /\ descargas' = <<>>
    /\ saltados' = {}
    /\ veredicto' = ""
    /\ UNCHANGED <<align_vars, rsi_vars>>
    /\ UNCHANGED <<tickers_seleccionados, periodo_rsi, idx, resultados,
                   df_resultados, analizados>>

\* lines 290-313: obtener_tipo_cambio_historico has returned and its locals
\* are gone.  With historical rates the batch starts; without, the two
\* buttons decide: "Sí" re-reads the current rate and goes on with
\* df_tc = None unless "No" is pressed too; anything else stops the script
Decidir ==
    /\ pc = "decidir"
    /\ IF df_tc = None \/ df_tc[1] = EmptyFrame
       THEN \E si \in BOOLEAN, no \in BOOLEAN, q \in Quotes :
               /\ si_fijo' = si
               /\ tc_actual' = IF si THEN obtener_tipo_cambio_actual(q) ELSE tc_actual
               /\ df_tc' = None
               /\ pc' = IF si /\ Truthy(obtener_tipo_cambio_actual(q)) /\ ~no
                        THEN "batch" ELSE "stopped"
       ELSE /\ pc' = "batch"
            /\ UNCHANGED <<si_fijo, tc_actual, df_tc>>
    /\ intento' = 1
    /\ stock_ba' = EmptyFrame
    /\ stock_us' = EmptyFrame
    /\ descargas' = <<>>
    /\ saltados' = {}
    /\ veredicto' = ""
    /\ UNCHANGED <<align_vars, rsi_vars>>
    /\ UNCHANGED <<tickers_seleccionados, periodo_rsi, idx, resultados,
                   df_resultados, analizados>>

\* lines 323-331: one turn of the batch loop, analizar_accion included
Procesar ==
    /\ pc = "batch"
    /\ idx <= Len(tickers_seleccionados)
    /\ \E out \in TargetFrames \cup {EmptyFrame, Raised}, q \in QuotesRead(df_tc) :
        LET ticker == tickers_seleccionados[idx]
            resultado == analizar_accion(ticker, out, df_tc, q, periodo_rsi)
            datos == obtener_datos_accion_usd(out, df_tc, q)
        IN  /\ resultados' = IF resultado # None
                             THEN Append(resultados, resultado[1]) ELSE resultados
            /\ analizados' = Append(analizados,
                                 [ticker |-> ticker,
                                  descarga |-> IF out = Raised THEN "raised"
                                               ELSE IF out = EmptyFrame THEN "empty"
                                               ELSE "data",
                                  filas |-> IF datos = None THEN 0
                                            ELSE Cardinality(DOMAIN datos[1]),
                                  fijo |-> df_tc = None])
    /\ idx' = idx + 1
    /\ UNCHANGED <<align_vars, rsi_vars>>
    /\ UNCHANGED <<pc, tickers_seleccionados, periodo_rsi, tc_actual, intento,
                   stock_ba, stock_us, df_tc, si_fijo, df_resultados, descargas,
                   saltados, veredicto>>

\* lines 337-352 and 508-509: the table of the results, or the error message
Mostrar ==
    /\ pc = "batch"
    /\ idx > Len(tickers_seleccionados)
    /\ df_resultados' = [i \in 1..Len(resultados) |->
                            [Ticker |-> resultados[i].ticker,
                             Senal |-> Senal(resultados[i].rsi_usd)]]
    /\ pc' = "done"
    /\ UNCHANGED <<align_vars, rsi_vars>>
    /\ UNCHANGED <<tickers_seleccionados, periodo_rsi, tc_actual, intento, stock_ba,
                   stock_us, df_tc, si_fijo, idx, resultados, descargas, saltados,
                   veredicto, analizados>>

Next ==
    \/ Pagina
    \/ Calcular
    \/ DescargarBA
    \/ DescargarUS
    \/ Evaluar
    \/ Decidir
    \/ Procesar
    \/ Mostrar

Spec == Init /\ [][Next]_vars

page_vars == <<pc, tickers_seleccionados, periodo_rsi, tc_actual, intento, stock_ba,
               stock_us, df_tc, si_fijo, idx, resultados, df_resultados, descargas,
               saltados, veredicto, analizados>>

\* ------------------------------------------------- calcular_rsi on its own

Closes == {Num(c) : c \in 1..MaxClose}

InitRSI ==
    /\ PageIdle
    /\ AlignIdle
    /\ r_precios \in SeqsUpTo(Closes, MaxLen) \ {<<>>}
    /\ r_periodo \in 1..MaxPeriodo
    /\ r_rsi = <<>>

CalcularRSI ==
    /\ r_rsi = <<>>
    /\ r_rsi' = <<calcular_rsi(r_precios, r_periodo)>>
    /\ UNCHANGED <<r_precios, r_periodo, page_vars, align_vars>>

NextRSI ==
    \/ CalcularRSI

SpecRSI == InitRSI /\ [][NextRSI]_vars

\* ------------------------------------- obtener_datos_accion_usd on its own

\* the downloads of a ticker: from the first day, from the provider's empty
\* row, or from the day after it
AlignTargets ==
    {Frame(lo, MaxDate, hole, shape) :
        lo \in {1, HoleDate, HoleDate + 1}, hole \in {0, HoleDate}, shape \in {"up", "zero"}}

\* the rates obtener_tipo_cambio_historico returns for the legs it may get
AlignRates ==
    {WithTC(JoinLegs(ba, us), intentos[k].multiplicador) :
        ba \in {b \in {Frame(lo, MaxDate, hole, shape) :
                          lo \in 1..2, hole \in {0, HoleDate}, shape \in {"up", "zero"}} :
                   \E u \in {Frame(1, MaxDate, 0, "flat"), Frame(1, MaxDate, 0, "zero")} :
                       Verdict(b, u) = "ok"},
        us \in {Frame(1, MaxDate, 0, "flat"), Frame(1, MaxDate, 0, "zero")},
        k \in 1..2}

\* the last closes read for the fixed rate, one of them on a row without values
AlignQuotes == Quotes \cup { << <<NaN, Num(1)>>, <<>>, <<>> >> }

InitAlign ==
    /\ PageIdle
    /\ RsiIdle
    /\ a_df \in AlignTargets \cup {EmptyFrame, Raised}
    /\ \/ a_tc \in {Some(tc) : tc \in AlignRates} /\ a_q = << <<>>, <<>>, <<>> >>
       \/ a_tc = None /\ a_q \in AlignQuotes
    /\ a_out = <<>>

Alinear ==
    /\ a_out = <<>>
    /\ a_out' = <<obtener_datos_accion_usd(a_df, a_tc, a_q)>>
    /\ UNCHANGED <<a_df, a_tc, a_q, page_vars, rsi_vars>>

NextAlign ==
    \/ Alinear

SpecAlign == InitAlign /\ [][NextAlign]_vars

\* ------------------------------------------------------------------ claims

Candidates == 1..Len(intentos)

\* the candidate whose verdict `veredicto` is
Juzgado == IF pc = "decidir" \/ veredicto = "ok" THEN intento ELSE intento - 1

\* C1: the candidates are downloaded strictly in priority order, local leg
\* first: a leg of candidate k+1 is downloaded only once candidate k was
\* skipped, every candidate skipped or kept was downloaded, and once a
\* candidate is kept nothing is downloaded after its two legs.
C1_OrdenDeCandidatos ==
    /\ \A i \in 1..Len(descargas) :
          /\ descargas[i][1] \in Candidates
          /\ descargas[i][1] > 1 => (descargas[i][1] - 1) \in saltados
          /\ \A j \in 1..Len(descargas) : i < j => descargas[i][1] <= descargas[j][1]
          /\ descargas[i][2] = "US" =>
                i > 1 /\ descargas[i - 1] = <<descargas[i][1], "BA">>
    /\ \A k \in saltados : \E i \in 1..Len(descargas) : descargas[i] = <<k, "BA">>
    /\ veredicto = "ok" =>
          /\ intento \notin saltados
          /\ descargas # <<>>
          /\ descargas[Len(descargas)] = <<intento, "US">>
          /\ pc = "decidir"

\* C1 witness: the first candidate was skipped and the second one kept
C1_Witness ==
    /\ pc = "decidir"
    /\ veredicto = "ok"
    /\ intento = 2
    /\ saltados = {1}
    /\ descargas[Len(descargas)] = <<2, "US">>

RECURSIVE TickersConDatos(_)
TickersConDatos(a) ==
    IF a = <<>> THEN <<>>
    ELSE (IF Head(a).filas > 0 THEN <<Head(a).ticker>> ELSE <<>>) \o TickersConDatos(Tail(a))

\* C2: the batch loop processes every selected ticker in order whatever the
\* earlier ones did, an empty or failed download yields no data, and the
\* results are exactly the tickers that yielded rows, in the order selected.
C2_UnResultadoPorTickerConDatos ==
    /\ pc \in {"batch", "done"} =>
          /\ Len(analizados) = idx - 1
          /\ \A i \in 1..Len(analizados) :
                /\ analizados[i].ticker = tickers_seleccionados[i]
                /\ analizados[i].descarga \in {"raised", "empty"} => analizados[i].filas = 0
          /\ [i \in 1..Len(resultados) |-> resultados[i].ticker] = TickersConDatos(analizados)
    /\ pc = "done" => Len(analizados) = Len(tickers_seleccionados)

\* C2 witness: the first ticker's download was empty or failed, the second
\* ticker has data, and the batch ended with the one result of the second
C2_Witness ==
    /\ pc = "done"
    /\ Len(tickers_seleccionados) = 2
    /\ analizados[1].descarga \in {"raised", "empty"}
    /\ analizados[2].filas > 0
    /\ Len(resultados) = 1
    /\ resultados[1].ticker = tickers_seleccionados[2]

\* C3: when every candidate was skipped the resolver's result is None; from
\* there the batch runs (on the fixed rate) only if "Sí, usar TC fijo" was
\* pressed, and otherwise the script stops with no ticker analysed.  No
\* ticker is ever converted with the fixed rate without that button.
C3_SinSustitucionSilenciosa ==
    /\ [](/\ (pc = "decidir" /\ saltados = Candidates) => df_tc = None
          /\ (pc \in {"batch", "done"} /\ df_tc = None) => (si_fijo /\ Truthy(tc_actual))
          /\ \A i \in 1..Len(analizados) : analizados[i].fijo => si_fijo
          /\ pc = "stopped" => (analizados = <<>> /\ resultados = <<>>))
    /\ [][(pc = "decidir" /\ df_tc = None) =>
             /\ pc' = "batch" => si_fijo'
             /\ ~si_fijo' => pc' = "stopped"
             /\ analizados' = <<>>]_vars

\* C3 witness: the resolver returned None, the fixed rate was not chosen and
\* the script stopped before any ticker was analysed
C3_Witness ==
    /\ pc = "stopped"
    /\ tickers_seleccionados # <<>>
    /\ Truthy(tc_actual)
    /\ ~si_fijo
    /\ df_tc = None
    /\ analizados = <<>>

\* the label the export format gives an RSI n/d
Etiqueta(r) ==
    IF r[2] = 0 THEN "Neutral"
    ELSE IF r[1] < 30 * r[2] THEN "Sobreventa"
    ELSE IF r[1] > 70 * r[2] THEN "Sobrecompra"
    ELSE "Neutral"

\* C9: the signal of every row of the table is decided by the result's USD
\* RSI alone: oversold below 30, overbought above 70, neutral otherwise, at
\* exactly 30 and 70 and for an undefined RSI included.
C9_SenalSoloDeRsiUsd ==
    pc = "done" =>
        /\ Len(df_resultados) = Len(resultados)
        /\ \A i \in 1..Len(resultados) :
              /\ df_resultados[i].Ticker = resultados[i].ticker
              /\ df_resultados[i].Senal = Etiqueta(resultados[i].rsi_usd)
              /\ \A j \in 1..Len(resultados) :
                    resultados[i].rsi_usd = resultados[j].rsi_usd
                        => df_resultados[i].Senal = df_resultados[j].Senal

\* C9 witness: a result whose USD RSI is exactly 30 is neutral, next to one
\* whose USD RSI is undefined and neutral too
C9_Witness ==
    /\ pc = "done"
    /\ \E i \in 1..Len(resultados) :
          resultados[i].rsi_usd = Num(30) /\ df_resultados[i].Senal = "Neutral"
    /\ \E i \in 1..Len(resultados) :
          IsNaN(resultados[i].rsi_usd) /\ df_resultados[i].Senal = "Neutral"

\* the days on which both legs have a close
Aligned(ba, us) ==
    {d \in DOMAIN ba \cap DOMAIN us : ~IsNaN(ba[d].Close) /\ ~IsNaN(us[d].Close)}

\* C10: a candidate whose two legs were downloaded is kept iff both are
\* non-empty and have at least 10 days in common; the rates returned are
\* (local close / hard close) * multiplier on exactly those days; any other
\* candidate is skipped, and the result is None iff all of them were.
C10_AceptaConDiezDias ==
    /\ (pc \in {"tc_ba", "decidir"} /\ veredicto \in {"ok", "empty", "pocos"}) =>
          /\ veredicto = "ok" <=>
                /\ stock_ba # EmptyFrame
                /\ stock_us # EmptyFrame
                /\ Cardinality(Aligned(stock_ba, stock_us)) >= 10
          /\ veredicto = "ok" =>
                /\ df_tc # None
                /\ DOMAIN df_tc[1] = Aligned(stock_ba, stock_us)
                /\ \A d \in DOMAIN df_tc[1] :
                      df_tc[1][d].TC =
                          Norm(stock_ba[d].Close[1] * stock_us[d].Close[2]
                                   * intentos[Juzgado].multiplicador,
                               stock_ba[d].Close[2] * stock_us[d].Close[1])
    /\ veredicto \in {"error", "empty", "pocos"} => Juzgado \in saltados
    /\ pc = "decidir" => (df_tc = None <=> saltados = Candidates)

\* C10 witness: two candidates were skipped, one of them for having too few
\* common days, and the third is kept with exactly 10 common days
C10_Witness ==
    /\ pc = "decidir"
    /\ veredicto = "ok"
    /\ saltados = {1, 2}
    /\ Cardinality(DOMAIN df_tc[1]) = 10
    /\ \A d \in DOMAIN df_tc[1] : df_tc[1][d].TC = Div(stock_ba[d].Close, stock_us[d].Close)

\* the rate the claimed policy gives day d: the rate of d, else of the latest
\* earlier day with a rate, else of the earliest later day with a rate
RateAsOf(tc, d) ==
    LET present == {e \in DOMAIN tc : ~IsNaN(tc[e].TC)}
        earlier == {e \in present : e < d}
        later == {e \in present : e > d}
    IN  IF d \in present THEN tc[d].TC
        ELSE IF earlier # {} THEN tc[Max(earlier)].TC
        ELSE IF later # {} THEN tc[Min(later)].TC
        ELSE NaN

\* C4 (as claimed): every row the aligner returns has a rate that is present
\* and strictly positive.
C4_RatePositive ==
    (a_out # <<>> /\ a_out[1] # None) =>
        \A d \in DOMAIN a_out[1][1] :
            ~IsNaN(a_out[1][1][d].TC) /\ Lt(Zero, a_out[1][1][d].TC)

\* C5 (as claimed): every day of the ticker that has a close is kept with the
\* rate of that day, else of the latest earlier rate day, else of the earliest
\* later rate day, whenever that rate exists and converts the close.
C5_AsOfFill ==
    (a_out # <<>> /\ a_tc # None /\ a_df # Raised) =>
        \A d \in DOMAIN a_df :
            LET r == RateAsOf(a_tc[1], d)
            IN  (/\ ~IsNaN(a_df[d].Close)
                 /\ ~IsNaN(a_df[d].Volume)
                 /\ ~IsNaN(r)
                 /\ ~IsNaN(Div(a_df[d].Close, r)))
                => /\ a_out[1] # None
                   /\ d \in DOMAIN a_out[1][1]
                   /\ a_out[1][1][d].TC = r

\* C6 (as claimed): every RSI value is undefined (only without enough
\* history) or a number in [0, 100]; with enough history it is never NaN.
C6_RsiInRange ==
    r_rsi # <<>> =>
        \A i \in 1..Len(r_precios) :
            /\ i > r_periodo => ~IsNaN(r_rsi[1][i])
            /\ IsNaN(r_rsi[1][i])
               \/ (IsFinite(r_rsi[1][i]) /\ ~Lt(r_rsi[1][i], Zero) /\ ~Lt(Num(100), r_rsi[1][i]))

\* C7 (as claimed): on a flat series the RSI is 50 wherever there is enough
\* history.
C7_FlatIsFifty ==
    (r_rsi # <<>> /\ \A i \in 1..Len(r_precios) : r_precios[i] = r_precios[1]) =>
        \A i \in 1..Len(r_precios) : i > r_periodo => r_rsi[1][i] = Num(50)

\* C8 (as claimed): the series keeps its length and its first `periodo`
\* values, which have fewer than `periodo` real changes behind them, are
\* undefined.
C8_FirstLookbackUndefined ==
    r_rsi # <<>> =>
        /\ Len(r_rsi[1]) = Len(r_precios)
        /\ \A i \in 1..Len(r_precios) : i <= r_periodo => IsNaN(r_rsi[1][i])

====
